---------------------------- MODULE Spec2Model ----------------------------
(***************************************************************************)
(* A model of the holdings / portfolio arithmetic of the repository:       *)
(* Stock (src/Stock.py), Portfolio (src/Portfolio.py),                     *)
(* HistoryInformationRetriever (src/HistoryInformationRetriever.py), and   *)
(* of the plotters that draw them (src/HistoryPlotter.py,                  *)
(* src/PortfolioPlotter.py).                                               *)
(*                                                                         *)
(* Numbers.  A float is a binary64 number, held exactly as                 *)
(* eps^k * (a + b * eps) with eps = 2^-52 and two small rationals: the     *)
(* principal part a and the residue b that rounding to 53 bits has left.   *)
(* Every operation is rounded as IEEE 754 rounds it (to the nearest, ties  *)
(* to even).  NaN is pandas' null; the two zeros, 0.0 and -0.0, are held   *)
(* apart, since a division by them differs in the sign of its infinity.    *)
(*                                                                         *)
(* Tables.  A DataFrame is a function from its index (a set of             *)
(* timestamps, ascending by their integer order) to a row, a function      *)
(* from column names to numbers.  A Series is a function from its index    *)
(* to numbers.                                                             *)
(***************************************************************************)
EXTENDS Integers, Sequences, FiniteSets, TLC

\* ------------------------------------------------------------------ bounds
MaxT == 3           \* timestamps the data provider knows: 1..MaxT
MaxHoldings == 3    \* longest holdings list handed to Portfolio
MaxGaps == 2        \* rows missing or Close values null in a whole market

T == 1..MaxT
Periods == 0..MaxT  \* fetch parameter: the window of the last p timestamps
Values == {-1, 1, 2}
Columns == {"Close", "Dividends"}

\* --------------------------------------------------------------- numbers
Abs(n) == IF n < 0 THEN -n ELSE n
Sign(n) == IF n < 0 THEN -1 ELSE IF n = 0 THEN 0 ELSE 1

RECURSIVE GCD(_, _)
GCD(a, b) == IF b = 0 THEN a ELSE GCD(b, a % b)

\* exact rationals <<n, d>> in lowest terms, d > 0: the coefficients of a float
QNorm(n, d) ==
    LET g == GCD(Abs(n), Abs(d))
        s == IF d < 0 THEN -1 ELSE 1
    IN  <<(s * n) \div g, (s * d) \div g>>

QInt(n) == <<n, 1>>
QNeg(p) == <<-p[1], p[2]>>
QAdd(p, q) == QNorm(p[1] * q[2] + q[1] * p[2], p[2] * q[2])
QSub(p, q) == QAdd(p, QNeg(q))
QMul(p, q) == QNorm(p[1] * q[1], p[2] * q[2])
QDiv(p, q) == QNorm(p[1] * q[2], p[2] * q[1])
QFloor(p) == p[1] \div p[2]

RECURSIVE Pow2(_)
Pow2(e) == IF e = 0 THEN 1 ELSE 2 * Pow2(e - 1)

\* 2^e for any integer e
QPow2(e) == IF e >= 0 THEN <<Pow2(e), 1>> ELSE <<1, Pow2(-e)>>

\* floor(log2 |p|) for p # 0: the binade of p
RECURSIVE FLog2(_)
FLog2(p) ==
    IF Abs(p[1]) >= 2 * p[2] THEN FLog2(<<p[1], 2 * p[2]>>) + 1
    ELSE IF Abs(p[1]) < p[2] THEN FLog2(<<2 * p[1], p[2]>>) - 1
    ELSE 0

\* 2^m mod M
RECURSIVE PowMod2(_, _)
PowMod2(m, M) ==
    IF m = 0 THEN 1 % M
    ELSE LET h == PowMod2(m \div 2, M)
         IN  (h * h * (IF m % 2 = 1 THEN 2 ELSE 1)) % M

\* the binary64 mantissa holds 53 bits: 1 + 2^-Mantissa is the float after 1
Mantissa == 52

\* A float is <<n, d, rn, rd, k>>, the number eps^k * (n/d + (rn/rd) * eps)
\* with eps = 2^-Mantissa: n/d is the principal part (x[1], x[2]), rn/rd the
\* residue that rounding has left, and k the order (0 but for the results
\* of a cancellation and what is computed from them).  d = 0 is NaN and
\* the infinities; a float other than 0 has n # 0, and d = -1 marks -0.0.
Float(k, a, b) == <<a[1], a[2], b[1], b[2], k>>
Principal(x) == <<x[1], x[2]>>
Residue(x) == <<x[3], x[4]>>
Order(x) == x[5]

Num(n) == Float(0, QInt(n), QInt(0))
NaN == <<0, 0, 0, 1, 0>>
Zero == Num(0)
NegZero == <<0, -1, 0, 1, 0>>
One == Num(1)

IsNaN(x) == x = NaN
IsFinite(x) == x[2] # 0

\* the sign bit of a float that is not NaN
SignBit(x) == x[1] < 0 \/ x[2] < 0

\* -x; the zeros change into each other
Neg(x) ==
    IF x[1] = 0 /\ x[2] # 0 THEN <<0, -x[2], 0, 1, 0>>
    ELSE <<-x[1], x[2], -x[3], x[4], x[5]>>

\* the binade e of the float nearest to a + b * eps: that of a, but for a
\* power of two approached from below
BinadeFrom(a, b, ea) ==
    IF <<Abs(a[1]), a[2]>> = QPow2(ea) /\ Sign(b[1]) * Sign(a[1]) < 0 THEN ea - 1 ELSE ea

Binade(a, b) == BinadeFrom(a, b, FLog2(a))

\* r modulo 2, in [0, 2)
QMod2(r) == QSub(r, QInt(2 * QFloor(<<r[1], 2 * r[2]>>)))

\* the position of a + b * eps on the grid of the floats of binade e, the
\* multiples of 2^e * eps, modulo 2: a * 2^(Mantissa - e) + b * 2^-e
Position(a, b, e) ==
    QMod2(QAdd(QNorm((a[1] * PowMod2(Mantissa - e, 2 * a[2])) % (2 * a[2]), a[2]),
               QMul(b, QPow2(-e))))

\* whether a number f in [0, 1) above the grid point of parity par goes to
\* the grid point above: to the nearest, a tie by the sign of c, and with
\* c = 0 to the even one
Up(f, c, par) ==
    IF 2 * f[1] > f[2] THEN 1
    ELSE IF 2 * f[1] < f[2] THEN 0
    ELSE IF c[1] > 0 THEN 1
    ELSE IF c[1] < 0 THEN 0
    ELSE par % 2

\* the signed distance, in grid steps, from a position to the grid point
\* it is rounded to
Excess(pos, c) ==
    QSub(pos, QInt(QFloor(pos) + Up(QSub(pos, QInt(QFloor(pos))), c, QFloor(pos))))

Snap(k, a, b, c, e) == Float(k, a, QSub(b, QMul(Excess(Position(a, b, e), c), QPow2(e))))

\* The binary64 number nearest to the exact eps^k * (a + b * eps + c * eps^2),
\* ties to the even mantissa (IEEE 754 round-to-nearest-even); c only
\* decides a tie.  A principal part that has cancelled leaves the residue
\* as the principal part of the next order; an exact 0 is 0.0.
Round53(k, a, b, c) ==
    IF a[1] = 0 /\ b[1] = 0 THEN Zero
    ELSE IF a[1] = 0 THEN Snap(k + 1, b, c, QInt(0), Binade(b, c))
    ELSE Snap(k, a, b, c, Binade(a, b))

\* x + y of two finite floats other than 0, x of the lower order (the
\* larger magnitude)
AddOrdered(x, y) ==
    Round53(Order(x),
            IF Order(x) = Order(y) THEN QAdd(Principal(x), Principal(y)) ELSE Principal(x),
            IF Order(x) = Order(y) THEN QAdd(Residue(x), Residue(y))
            ELSE IF Order(x) = Order(y) - 1 THEN QAdd(Residue(x), Principal(y))
            ELSE Residue(x),
            IF Order(x) = Order(y) THEN QInt(0)
            ELSE IF Order(x) = Order(y) - 1 THEN Residue(y)
            ELSE Principal(y))

\* -0.0 + -0.0 is -0.0; any other sum that is exactly 0 is 0.0
Add(x, y) ==
    IF IsNaN(x) \/ IsNaN(y) THEN NaN
    ELSE IF ~IsFinite(x) /\ ~IsFinite(y) THEN (IF x = y THEN x ELSE NaN)
    ELSE IF ~IsFinite(x) THEN x
    ELSE IF ~IsFinite(y) THEN y
    ELSE IF x[1] = 0 /\ y[1] = 0 THEN (IF x = y THEN x ELSE Zero)
    ELSE IF x[1] = 0 THEN y
    ELSE IF y[1] = 0 THEN x
    ELSE AddOrdered(IF Order(x) <= Order(y) THEN x ELSE y,
                    IF Order(x) <= Order(y) THEN y ELSE x)

Sub(x, y) == Add(x, Neg(y))

\* inf * 0 is NaN; a product that is 0 has the sign of its factors' signs
Mul(x, y) ==
    IF IsNaN(x) \/ IsNaN(y) THEN NaN
    ELSE IF ~IsFinite(x) \/ ~IsFinite(y)
    THEN <<Sign(x[1]) * Sign(y[1]), 0, 0, 1, 0>>
    ELSE IF x[1] = 0 \/ y[1] = 0
    THEN (IF SignBit(x) # SignBit(y) THEN NegZero ELSE Zero)
    ELSE Round53(Order(x) + Order(y),
                 QMul(Principal(x), Principal(y)),
                 QAdd(QMul(Principal(x), Residue(y)), QMul(Principal(y), Residue(x))),
                 QMul(Residue(x), Residue(y)))

\* the first-order coefficient of the quotient of a1 + b1 eps by a2 + b2 eps
QuotientResidue(a1, b1, a2, b2) == QDiv(QSub(QMul(b1, a2), QMul(a1, b2)), QMul(a2, a2))

\* the quotient of a1 + b1 eps by a2 + b2 eps is
\* a1/a2 + b eps - (b2/a2) b eps^2 + ... with b the first-order coefficient
Quotient(k, a1, a2, b2, b) == Round53(k, QDiv(a1, a2), b, QNeg(QMul(QDiv(b2, a2), b)))

\* numpy / pandas float division: x/0 is +-inf, 0/0 and inf/inf are NaN, no
\* exception; an infinite or zero quotient has the sign of the operands'
\* signs, those of the zeros included
Div(x, y) ==
    IF IsNaN(x) \/ IsNaN(y) THEN NaN
    ELSE IF ~IsFinite(x) /\ ~IsFinite(y) THEN NaN
    ELSE IF x[1] = 0 /\ y[1] = 0 THEN NaN
    ELSE IF ~IsFinite(x) \/ y[1] = 0
    THEN <<IF SignBit(x) # SignBit(y) THEN -1 ELSE 1, 0, 0, 1, 0>>
    ELSE IF ~IsFinite(y) \/ x[1] = 0
    THEN (IF SignBit(x) # SignBit(y) THEN NegZero ELSE Zero)
    ELSE Quotient(Order(x) - Order(y), Principal(x), Principal(y), Residue(y),
                  QuotientResidue(Principal(x), Residue(x), Principal(y), Residue(y)))

\* IEEE comparison: anything with NaN is false; -inf is below and +inf above
\* every other number, and an infinity equals itself; the two zeros are
\* equal; for the rest x < y when x - y, which rounding never turns into 0,
\* is negative
Less(x, y) == ~IsNaN(x) /\ ~IsNaN(y) /\ x # y /\ Sub(x, y)[1] < 0
Leq(x, y) ==
    ~IsNaN(x) /\ ~IsNaN(y) /\ (x = y \/ (x[1] = 0 /\ y[1] = 0) \/ Less(x, y))

RECURSIVE Pow10(_)
Pow10(k) == IF k = 0 THEN 1 ELSE 10 * Pow10(k - 1)

\* the integer nearest to a + b * eps, a tie by the sign of b and with
\* b = 0 to the even one
NearestInteger(a, b) ==
    QFloor(a) + Up(QSub(a, QInt(QFloor(a))), b, QFloor(a))

\* numpy's rint: the nearest integer, ties to the even one.  A float of a
\* positive order is nearer to 0 than to any other integer.  One of order
\* -1 is (a + b * eps) / eps, whose integers are the multiples of eps of
\* a + b * eps: the grid of binade 0; below 2^52 it need not be an integer
\* (2^52 / 3 is not).  One of a lower order is an integer.  A result that
\* is 0 keeps the sign of x
Rint(x) ==
    IF ~IsFinite(x) \/ x[1] = 0 \/ Order(x) < -1 THEN x
    ELSE IF Order(x) = -1 THEN Snap(-1, Principal(x), Residue(x), QInt(0), 0)
    ELSE IF Order(x) > 0 \/ NearestInteger(Principal(x), Residue(x)) = 0
    THEN (IF SignBit(x) THEN NegZero ELSE Zero)
    ELSE Num(NearestInteger(Principal(x), Residue(x)))

\* numpy's round(decimals) for decimals > 0: rint(x * 10^decimals) /
\* 10^decimals; NaN and the infinities are returned as they are
Round(x, decimals) ==
    IF ~IsFinite(x) THEN x
    ELSE Div(Rint(Mul(x, Num(Pow10(decimals)))), Num(Pow10(decimals)))

\* ndarray.sum() of a few floats: from left to right, starting with the
\* first, and 0.0 for none
RECURSIVE SumSeq(_)
SumSeq(s) ==
    IF s = <<>> THEN Zero
    ELSE IF Len(s) = 1 THEN s[1]
    ELSE Add(SumSeq(SubSeq(s, 1, Len(s) - 1)), s[Len(s)])

\* ---------------------------------------------------------------- tables
Index(df) == DOMAIN df

Min(S) == CHOOSE t \in S : \A u \in S : t <= u
Max(S) == CHOOSE t \in S : \A u \in S : u <= t

\* the index as the ascending sequence of its timestamps
RECURSIVE Ascending(_)
Ascending(S) == IF S = {} THEN <<>> ELSE <<Min(S)>> \o Ascending(S \ {Min(S)})

Ok(v) == [err |-> "", val |-> v]
Err(e) == [err |-> e, val |-> <<>>]

\* df * scalar (a null cell stays null)
Scale(df, w) == [t \in Index(df) |-> [c \in Columns |-> Mul(df[t][c], w)]]

\* x + y without fill_value: a cell missing on either side is null
AddNoFill(x, y) ==
    [t \in Index(x) \cup Index(y) |->
        [c \in Columns |->
            IF t \in Index(x) /\ t \in Index(y) THEN Add(x[t][c], y[t][c]) ELSE NaN]]

\* x.add(y, fill_value=0.0): the union of the two indexes; a cell missing
\* (absent or null) on one side only counts as 0.0; missing on both sides
\* the result is null
AddFill(x, y) ==
    [t \in Index(x) \cup Index(y) |->
        [c \in Columns |->
            LET a == IF t \in Index(x) THEN x[t][c] ELSE NaN
                b == IF t \in Index(y) THEN y[t][c] ELSE NaN
            IN  IF IsNaN(a) /\ IsNaN(b) THEN NaN
                ELSE Add(IF IsNaN(a) THEN Zero ELSE a,
                         IF IsNaN(b) THEN Zero ELSE b)]]

\* functools.reduce(f, seq) with f = AddFill, seq not empty
RECURSIVE ReduceAddFill(_)
ReduceAddFill(dfs) ==
    IF Len(dfs) = 1 THEN dfs[1]
    ELSE AddFill(ReduceAddFill(SubSeq(dfs, 1, Len(dfs) - 1)), dfs[Len(dfs)])

\* df /= df.iloc[0]; iloc[0] of an empty table raises IndexError
DivideByFirstRow(df) ==
    IF Index(df) = {} THEN Err("IndexError")
    ELSE LET first == df[Min(Index(df))]
         IN  Ok([t \in Index(df) |-> [c \in Columns |-> Div(df[t][c], first[c])]])

\* df[column]; a column the table does not have raises KeyError
Column(df, c) ==
    IF c \notin Columns THEN Err("KeyError")
    ELSE Ok([t \in Index(df) |-> df[t][c]])

\* series /= series.iloc[-1]
DivideByLast(s) ==
    IF DOMAIN s = {} THEN Err("IndexError")
    ELSE Ok([t \in DOMAIN s |-> Div(s[t], s[Max(DOMAIN s)])])

\* series /= series.iloc[0]
DivideByFirst(s) ==
    IF DOMAIN s = {} THEN Err("IndexError")
    ELSE Ok([t \in DOMAIN s |-> Div(s[t], s[Min(DOMAIN s)])])

\* the sum of the non-null values of the time points in S, in index order,
\* starting from 0.0
RECURSIVE SumOver(_, _)
SumOver(s, S) ==
    IF S = {} THEN Zero
    ELSE LET t == CHOOSE u \in S : \A v \in S : v <= u
             rest == SumOver(s, S \ {t})
         IN  IF IsNaN(s[t]) THEN rest ELSE Add(rest, s[t])

\* series.sum(): ndarray.sum() of the values with 0.0 for the nulls, which
\* is -0.0 when every value is -0.0
Sum(s) ==
    IF DOMAIN s # {} /\ \A t \in DOMAIN s : s[t] = NegZero THEN NegZero
    ELSE SumOver(s, DOMAIN s)

\* the calendar month a timestamp lies in: timestamp 1 lies in month 1,
\* timestamps 2 and 3 in month 3, timestamps 4 and 5 in month 5, so that no
\* timestamp lies in the even months
MonthOf(t) == 2 * (t \div 2) + 1

\* one entry for each month that holds a time point, and no other
SumOfMonthsPresent(s) ==
    [m \in {MonthOf(t) : t \in DOMAIN s} |->
        SumOver(s, {t \in DOMAIN s : MonthOf(t) = m})]

\* series.resample("MS").sum(): one bin for every calendar month from the
\* month of the first time point to the month of the last, labelled by the
\* month (its first day), holding the sum of the month's values; a bin
\* without a time point sums to 0
resample_MS_sum(s) ==
    IF DOMAIN s = {} THEN s
    ELSE [m \in MonthOf(Min(DOMAIN s))..MonthOf(Max(DOMAIN s)) |->
            SumOver(s, {t \in DOMAIN s : MonthOf(t) = m})]

\* ------------------------------------------------------------ the market
\* What the data provider holds for the ticker of holding i at timestamp t
\* when nothing is missing.  Holding 1 carries the closes 10, 12, 9.
ClosePrice(i, t) ==
    IF i = 1 /\ t <= 3 THEN Num(<<10, 12, 9>>[t])
    ELSE Num(1 + ((i * i + 3 * t + i * t * t) % 7))

Dividend(i, t) == Num((i + t) % 2)

\* the markets for n tickers: each cell is as the provider has it, or its
\* row is absent, or its Close is null; at most g cells are not plain
MarketsUpTo(n, g) ==
    LET GapSets == {G \in SUBSET ((1..n) \X T) : Cardinality(G) <= g}
        Table(i, G, kind) ==
            [t \in {u \in T : ~(<<i, u>> \in G /\ kind[<<i, u>>] = "absent")} |->
                [c \in Columns |->
                    IF c = "Close"
                    THEN (IF <<i, t>> \in G THEN NaN ELSE ClosePrice(i, t))
                    ELSE Dividend(i, t)]]
    IN  UNION {{[i \in 1..n |-> Table(i, G, kind)] :
                    kind \in [G -> {"absent", "null"}]} : G \in GapSets}

Markets(n) == MarketsUpTo(n, MaxGaps)

\* ----------------------------------------------------------------- state
VARIABLES
    stocks,       \* the holdings list, by invested value; holding i has ticker i
    market,       \* the data provider: market[i] is the table of ticker i
    pc,           \* "new": no Portfolio yet; "ok": constructed; "failed": __init__ raised
    percentages,  \* Portfolio._percentages
    op,           \* the call whose outcome is held, "none" when there is none
    target,       \* 0: the call is on the Portfolio; i: on holding i
    period,       \* the fetch parameter `period` of the call
    interval,     \* the fetch parameter `interval` of the call, NoInterval
                  \* when the call passes none
    result,       \* what the call returned
    error,        \* the exception the call (or __init__) raised, "" when none
    fetched,      \* the fetches the call issued, in order, each
                  \* <<holding, period, interval>> as the provider was asked
    aligned,      \* get_correlations: per pair, the series before and after alignment
    down,         \* the holdings whose fetch raises during the call
    colors,       \* the plotter's color table, MatplotHistoryPlotter._colors
    rcParams,     \* matplotlib's rc settings, for the keys of the theme
    via,          \* "decorator": the plot call was made through OneDarkPlotDecorator;
                  \* "plotter": on the plotter itself; "" when no plot call is held
    retriever,    \* the HistoryInformationRetriever the caller holds: whether one
                  \* is built, the fetch parameter it was built with, its _history_df
    earlier       \* the first call the caller made and what it returned, kept to
                  \* compare a repetition of the call with, and what was called since

vars == <<stocks, market, pc, percentages, op, target, period, interval, result, error,
          fetched, aligned, down, colors, rcParams, via, retriever, earlier>>

N == Len(stocks)

\* ----------------------------------------------------------------- Stock
\* the keyword `interval` of **history_kwargs: absent, or "1d", the interval
\* the provider takes when none is passed, so that the table answered is the
\* same
NoInterval == ""

Intervals == {NoInterval, "1d"}

\* self._ticker.history(**history_kwargs): the rows of the ticker's table
\* that lie in the requested window, a new table on every call
History(i, p) == [t \in {u \in Index(market[i]) : u > MaxT - p} |-> market[i][t]]

\* the outcome r of a step made on what `call` returned: the fetches are the
\* call's
Then(call, r) == [err |-> r.err, val |-> r.val, fetched |-> call.fetched]

\* the ticker code of holding i is i; nothing is fetched
Stock_get_stock_name(i) == [err |-> "", val |-> i, fetched |-> <<>>]

\* a Stock that answers from a table it keeps since it was built
Stock_get_history_df_kept(i, p, iv) ==
    [err |-> "", val |-> History(i, p), fetched |-> <<>>]

\* the one place where a Stock asks the provider: one fetch, with the
\* keywords the method is called with
Stock_get_history_df(i, p, iv) ==
    [err |-> "", val |-> History(i, p), fetched |-> <<<<i, p, iv>>>>]

Stock_get_normalized_history_df(i, p, iv) ==
    LET history_df == Stock_get_history_df(i, p, iv)
    IN  Then(history_df, DivideByFirstRow(history_df.val))

Stock_get_close_series(i, p, iv) ==
    LET history_df == Stock_get_history_df(i, p, iv)
    IN  Then(history_df, Column(history_df.val, "Close"))

Stock_get_normalized_close_series(i, p, iv) ==
    LET close_series == Stock_get_close_series(i, p, iv)
    IN  IF close_series.err # "" THEN close_series
        ELSE Then(close_series, DivideByFirst(close_series.val))

\* get_period_valorization(period) passes the period on and nothing else;
\* n_close_series[-1] is the last point of the series
Stock_get_period_valorization(i, p) ==
    LET n_close_series == Stock_get_normalized_close_series(i, p, NoInterval)
    IN  IF n_close_series.err # "" THEN n_close_series
        ELSE Then(n_close_series, Ok(n_close_series.val[Max(DOMAIN n_close_series.val)]))

Stock_get_dividends_series(i, p, iv) ==
    LET history_df == Stock_get_history_df(i, p, iv)
    IN  Then(history_df, Column(history_df.val, "Dividends"))

\* the keyword `interval` is deleted from history_kwargs before the
\* dividends series is asked for, so the fetch goes out without it
Stock_get_monthly_dividends_series(i, p, iv) ==
    LET dividend_series == Stock_get_dividends_series(i, p, NoInterval)
    IN  IF dividend_series.err # "" THEN dividend_series
        ELSE Then(dividend_series, Ok(resample_MS_sum(dividend_series.val)))

\* get_period_dividends(period) passes the period on and nothing else
Stock_get_period_dividends(i, p) ==
    LET dividend_series == Stock_get_dividends_series(i, p, NoInterval)
    IN  IF dividend_series.err # "" THEN dividend_series
        ELSE Then(dividend_series, Ok(Sum(dividend_series.val)))

\* the table a fetch hands out is the provider's own, so what the caller
\* writes into it is what the provider holds from then on
ProviderSharesTable(i, written) ==
    [market EXCEPT ![i] = [t \in DOMAIN market[i] |->
        IF t \in DOMAIN written THEN written[t] ELSE market[i][t]]]

\* what the provider holds after the caller has overwritten, in place, the
\* table the fetch for holding i handed out: self._ticker.history() builds a
\* new table on every call, so the provider's data is as before
ProviderAfterWrite(i, written) == market

\* ------------------------------------------------------------- Portfolio
RoundDecimals == 3

\* every holding weighs the same
set_percentages_equal(values) ==
    Ok([i \in 1..Len(values) |-> Div(One, Num(Len(values)))])

\* value[i] / values_sum for each holding, values_sum being sum(...), which
\* starts from 0; Python's float division raises ZeroDivisionError when the
\* values sum to 0
set_percentages(values) ==
    LET values_sum == Add(Zero, SumSeq([i \in 1..Len(values) |-> Num(values[i])]))
    IN  IF Len(values) > 0 /\ values_sum[1] = 0 THEN Err("ZeroDivisionError")
        ELSE Ok([i \in 1..Len(values) |-> Div(Num(values[i]), values_sum)])

\* only the second assertion
check_count_only(pcts, values) == Len(pcts) = Len(values)

\* the two assertions of _check_percentage_consistency
check_percentage_consistency(pcts, values) ==
    /\ Round(SumSeq(pcts), RoundDecimals) = One
    /\ Len(pcts) = Len(values)

\* Portfolio.__init__ as called on class cls with holdings of type htype.
\* Portfolio itself leaves StockInterface.get_stock_name abstract, so only a
\* subclass that defines it can be instantiated; a plain Stock has no
\* `value` attribute, so only holdings that add one can be weighed.
Portfolio_init(cls, htype, values) ==
    IF cls = "Portfolio" THEN Err("TypeError")
    ELSE IF Len(values) > 0 /\ htype = "Stock" THEN Err("AttributeError")
    ELSE LET p == set_percentages(values)
         IN  IF p.err # "" THEN p
             ELSE IF ~check_percentage_consistency(p.val, values)
                  THEN Err("AssertionError")
                  ELSE p

\* [stock.get_history_df(**history_kwargs) for stock in self._stocks] when
\* the fetches of the holdings in d raise: the holdings are fetched in list
\* order, once each, and the first exception ends the comprehension
RECURSIVE FetchFrom(_, _, _)
FetchFrom(i, p, d) ==
    IF i > N THEN [err |-> "", fetched |-> <<>>]
    ELSE IF i \in d THEN [err |-> "ProviderError", fetched |-> <<<<i, p, NoInterval>>>>]
    ELSE LET rest == FetchFrom(i + 1, p, d)
         IN  [err |-> rest.err, fetched |-> <<<<i, p, NoInterval>>>> \o rest.fetched]

\* every holding is fetched, and the failure is raised after the last one
FetchAllThenRaise(p, d) ==
    [err |-> IF d \cap (1..N) = {} THEN "" ELSE "ProviderError",
     fetched |-> [i \in 1..N |-> <<i, p, NoInterval>>]]

\* the holdings are fetched from the last to the first
FetchEachReversed(p, d) ==
    [err |-> FetchFrom(1, p, d).err, fetched |-> [k \in 1..N |-> <<N + 1 - k, p, NoInterval>>]]

FetchEach(p, d) == FetchFrom(1, p, d)

\* every holding's table is multiplied by its invested value
Portfolio_get_history_df_by_value(p) ==
    IF N = 0 THEN Err("TypeError")
    ELSE Ok(ReduceAddFill([i \in 1..N |-> Scale(History(i, p), Num(stocks[i]))]))

Portfolio_get_history_df(p) ==
    LET history_dfs == [i \in 1..N |-> History(i, p)]
        weighted_history_dfs == [i \in 1..N |-> Scale(history_dfs[i], percentages[i])]
    IN  IF N = 0 THEN Err("TypeError")   \* reduce() of an empty list
        ELSE Ok(ReduceAddFill(weighted_history_dfs))

Portfolio_get_normalized_history_df(p) ==
    LET history_df == Portfolio_get_history_df(p)
    IN  IF history_df.err # "" THEN history_df
        ELSE DivideByFirstRow(history_df.val)

Portfolio_get_close_series(p) ==
    LET history_df == Portfolio_get_history_df(p)
    IN  IF history_df.err # "" THEN history_df
        ELSE Column(history_df.val, "Close")

Portfolio_get_normalized_close_series(p) ==
    LET norm_history_df == Portfolio_get_normalized_history_df(p)
    IN  IF norm_history_df.err # "" THEN norm_history_df
        ELSE Column(norm_history_df.val, "Close")

\* norm_close_series.iloc[-1]
Portfolio_get_period_valorization(p) ==
    LET norm_close_series == Portfolio_get_normalized_close_series(p)
    IN  IF norm_close_series.err # "" THEN norm_close_series
        ELSE Ok(norm_close_series.val[Max(DOMAIN norm_close_series.val)])

\* get_history_df when the fetches of the holdings in d raise: the
\* exception of the list comprehension leaves the method before any table
\* is weighed or added
Portfolio_get_history_df_when(p, d) ==
    IF FetchEach(p, d).err # "" THEN Err(FetchEach(p, d).err)
    ELSE Portfolio_get_history_df(p)

\* history_df["Dividents"]: the blended table has the provider's columns
Portfolio_get_dividends_series(p) ==
    LET history_df == Portfolio_get_history_df(p)
    IN  IF history_df.err # "" THEN history_df
        ELSE Column(history_df.val, "Dividents")

Portfolio_get_monthly_dividends_series(p) ==
    LET dividend_series == Portfolio_get_dividends_series(p)
    IN  IF dividend_series.err # "" THEN dividend_series
        ELSE Ok(resample_MS_sum(dividend_series.val))

Portfolio_get_period_dividends(p) ==
    LET dividend_series == Portfolio_get_dividends_series(p)
    IN  IF dividend_series.err # "" THEN dividend_series
        ELSE Ok(Sum(dividend_series.val))

\* the methods and properties class Portfolio defines or inherits from
\* StockInterface
PortfolioMethods ==
    {"__init__", "_set_percentages", "_check_percentage_consistency",
     "name", "value", "stocks", "get_percentages", "get_stock_name",
     "get_history_df", "get_normalized_history_df", "get_close_series",
     "get_normalized_close_series", "get_period_valorization",
     "get_dividends_series", "get_monthly_dividends_series",
     "get_period_dividends", "_get_non_null_histories", "get_correlations"}

\* PortfolioPlotter.plot_portfolio_as_stock: its first statement calls
\* self._portfolio.get_portfolio_as_history(**history_kwargs); looking up a
\* method the Portfolio does not have raises AttributeError
PortfolioPlotter_plot_portfolio_as_stock(p) ==
    IF "get_portfolio_as_history" \notin PortfolioMethods THEN Err("AttributeError")
    ELSE Ok(<<>>)

\* PortfolioPlotter.plot_portfolio: its first statement calls
\* self._portfolio.get_normalized_portfolio_df(**history_kwargs)
PortfolioPlotter_plot_portfolio(p) ==
    IF "get_normalized_portfolio_df" \notin PortfolioMethods THEN Err("AttributeError")
    ELSE Ok(<<>>)

\* the table PortfolioPlotter.plot_individual_tickers and
\* plot_normalized_individual_tickers ask the Portfolio for, before they
\* hand it to the plotter's multi_lineplot
PortfolioPlotter_history_df(name, p) ==
    IF name = "plot_individual_tickers" THEN Portfolio_get_history_df(p)
    ELSE Portfolio_get_normalized_history_df(p)

\* x.dropna().index
NonNullIndex(x) == {t \in DOMAIN x : ~IsNaN(x[t])}

\* reduce(lambda x, y: x.intersection(y), idxs), idxs not empty
RECURSIVE ReduceIntersection(_)
ReduceIntersection(idxs) ==
    IF Len(idxs) = 1 THEN idxs[1]
    ELSE ReduceIntersection(SubSeq(idxs, 1, Len(idxs) - 1)) \cap idxs[Len(idxs)]

\* every series loses its own nulls only
get_non_null_histories_own(histories) ==
    [histories |-> [k \in 1..Len(histories) |->
                      [t \in NonNullIndex(histories[k]) |-> histories[k][t]]],
     args |-> histories]

\* _get_non_null_histories: `histories` is what it returns, `args` is what
\* the series it was handed hold afterwards (it works on copies)
get_non_null_histories(histories) ==
    LET copies == histories
        non_null_idxs == [k \in 1..Len(copies) |-> NonNullIndex(copies[k])]
        non_null_idx == ReduceIntersection(non_null_idxs)
    IN  [histories |-> [k \in 1..Len(copies) |-> [t \in non_null_idx |-> copies[k][t]]],
         args |-> histories]

\* the exact sum of a sequence of rationals
RECURSIVE QSumSeq(_)
QSumSeq(q) == IF q = <<>> THEN QInt(0) ELSE QAdd(Head(q), QSumSeq(Tail(q)))

\* scipy.stats.pearsonr(x, y)[0] for two series over the same index.  Fewer
\* than 2 points raise ValueError; a constant input gives NaN.  Otherwise the
\* coefficient r = cov / sqrt(varx * vary) of the closes, which the provider
\* holds as whole numbers, is returned as the exact rational sign(r) * r^2
\* with no residue, since r itself need not be rational.
pearsonr(x, y) ==
    LET D == DOMAIN x
        n == Cardinality(D)
        idx == Ascending(D)
        px == [k \in 1..n |-> Principal(x[idx[k]])]
        py == [k \in 1..n |-> Principal(y[idx[k]])]
        mx == QDiv(QSumSeq(px), QInt(n))
        my == QDiv(QSumSeq(py), QInt(n))
        cov == QSumSeq([k \in 1..n |-> QMul(QSub(px[k], mx), QSub(py[k], my))])
        vx == QSumSeq([k \in 1..n |-> QMul(QSub(px[k], mx), QSub(px[k], mx))])
        vy == QSumSeq([k \in 1..n |-> QMul(QSub(py[k], my), QSub(py[k], my))])
    IN  IF n < 2 THEN Err("ValueError")
        ELSE IF (\A t \in D : x[t] = x[Min(D)]) \/ (\A t \in D : y[t] = y[Min(D)])
             THEN Ok(NaN)
             ELSE Ok(Float(0, QMul(QInt(Sign(cov[1])), QDiv(QMul(cov, cov), QMul(vx, vy))),
                           QInt(0)))

\* itertools.combinations(range(1, n + 1), 2) from the pair <<i, j>> on
RECURSIVE PairsFrom(_, _, _)
PairsFrom(i, j, n) ==
    IF i >= n THEN <<>>
    ELSE IF j > n THEN PairsFrom(i + 1, i + 2, n)
    ELSE <<<<i, j>>>> \o PairsFrom(i, j + 1, n)

\* itertools.permutations(range(1, n + 1), 2)
permutations(n) ==
    LET all == [k \in 1..(n * n) |-> <<((k - 1) \div n) + 1, ((k - 1) % n) + 1>>]
    IN  SelectSeq(all, LAMBDA pr : pr[1] # pr[2])

combinations(n) == PairsFrom(1, 2, n)

\* one pass of the loop body of get_correlations for the pair pr
CorrelationStep(acc, pr, p) ==
    LET history1 == Stock_get_close_series(pr[1], p, NoInterval).val
        history2 == Stock_get_close_series(pr[2], p, NoInterval).val
        nn == get_non_null_histories(<<history1, history2>>)
        correlation == pearsonr(nn.histories[1], nn.histories[2])
        seen == [pair |-> pr, fetched1 |-> history1, fetched2 |-> history2,
                 after1 |-> nn.args[1], after2 |-> nn.args[2],
                 history1 |-> nn.histories[1], history2 |-> nn.histories[2]]
    IN  [err |-> correlation.err,
         val |-> IF correlation.err # "" THEN <<>>
                 ELSE Append(acc.val, [stock1 |-> pr[1], stock2 |-> pr[2],
                                       correlation |-> correlation.val]),
         fetched |-> acc.fetched \o <<<<pr[1], p, NoInterval>>, <<pr[2], p, NoInterval>>>>,
         aligned |-> Append(acc.aligned, seen)]

\* the loop of get_correlations; an exception ends it
RECURSIVE CorrelationLoop(_, _, _)
CorrelationLoop(acc, pairs, p) ==
    IF pairs = <<>> \/ acc.err # "" THEN acc
    ELSE CorrelationLoop(CorrelationStep(acc, Head(pairs), p), Tail(pairs), p)

Portfolio_get_correlations(p) ==
    CorrelationLoop([err |-> "", val |-> <<>>, fetched |-> <<>>, aligned |-> <<>>],
                    combinations(N), p)

\* the loop body when the fetches of the holdings in d raise: the first
\* holding of the pair is fetched, then the second
CorrelationStepWhen(acc, pr, p, d) ==
    IF pr[1] \in d
    THEN [acc EXCEPT !.err = "ProviderError", !.val = <<>>,
                     !.fetched = @ \o <<<<pr[1], p, NoInterval>>>>]
    ELSE IF pr[2] \in d
    THEN [acc EXCEPT !.err = "ProviderError", !.val = <<>>,
                     !.fetched = @ \o <<<<pr[1], p, NoInterval>>,
                                       <<pr[2], p, NoInterval>>>>]
    ELSE CorrelationStep(acc, pr, p)

RECURSIVE CorrelationLoopWhen(_, _, _, _)
CorrelationLoopWhen(acc, pairs, p, d) ==
    IF pairs = <<>> \/ acc.err # "" THEN acc
    ELSE CorrelationLoopWhen(CorrelationStepWhen(acc, Head(pairs), p, d),
                             Tail(pairs), p, d)

Portfolio_get_correlations_when(p, d) ==
    CorrelationLoopWhen([err |-> "", val |-> <<>>, fetched |-> <<>>, aligned |-> <<>>],
                        combinations(N), p, d)

\* --------------------------------------------------- HistoryInformationRetriever
\* self._history_df after HistoryInformationRetriever(ticker_code,
\* **history_kwargs): the table fetched for holding i with fetch parameter p
HIR_init(i, p) == History(i, p)

\* the getters answer from the table history_df the retriever stores; dated
\* tells whether the table has the column 'Date' (the constructor's fetch
\* branch names it so; a table as Stock.get_history_df answers it keeps the
\* dates in its index).  set_index('Date') is evaluated first and raises
\* KeyError on a table without the column
HIR_get_normalized_values_over_time(history_df, dated) ==
    IF ~dated THEN Err("KeyError")
    ELSE IF Index(history_df) = {} THEN Err("IndexError")
    ELSE Ok([t \in Index(history_df) |->
                Div(history_df[t]["Close"], history_df[Min(Index(history_df))]["Close"])])

HIR_get_variation(history_df) ==
    IF Index(history_df) = {} THEN Err("IndexError")
    ELSE LET first_vale == history_df[Min(Index(history_df))]["Close"]
             last_value == history_df[Max(Index(history_df))]["Close"]
         IN  Ok(Div(Sub(last_value, first_vale), first_vale))

\* --------------------------------------------------------- HistoryPlotter
\* the keys of the color table, in the order _set_colors inserts them
ColorNames == <<"red", "green", "blue", "cyan", "magenta", "yellow", "black", "white">>

ColorTable(codes) ==
    [n \in {ColorNames[k] : k \in 1..Len(ColorNames)} |->
        codes[CHOOSE k \in 1..Len(ColorNames) : ColorNames[k] = n]]

\* MatplotHistoryPlotter._set_colors
MatplotColors == ColorTable(<<"r", "g", "b", "c", "m", "y", "k", "w">>)

\* the codes OneDarkPlotDecorator._get_theme writes
OneDarkColors ==
    ColorTable(<<"#E06C75", "#98C379", "#61AFEF", "#56B6C2", "#C678DD", "#E5C07B",
                 "#292C34", "#ABB2BF">>)

\* the dictionary OneDarkPlotDecorator._get_theme returns
OneDarkTheme ==
    [k \in {"text.color", "xtick.color", "ytick.color", "axes.facecolor",
            "figure.facecolor", "lines.color"} |->
        IF k \in {"axes.facecolor", "figure.facecolor"} THEN "#292C34" ELSE "#ABB2BF"]

\* plt.rcdefaults(): matplotlib's own settings for the keys of the theme
rcdefaults ==
    [k \in DOMAIN OneDarkTheme |->
        IF k \in {"axes.facecolor", "figure.facecolor"} THEN "white"
        ELSE IF k = "lines.color" THEN "C0" ELSE "black"]

\* a _get_theme that builds the theme and leaves the decorated plotter's
\* color table alone
get_theme_pure(c) == [colors |-> c, rc |-> OneDarkTheme]

\* OneDarkPlotDecorator._get_theme on a decorated plotter whose color table
\* is c: the eight colors are assigned in the decorated plotter's table,
\* and the theme is returned
get_theme(c) ==
    [colors |-> [n \in DOMAIN c |-> IF n \in DOMAIN OneDarkColors THEN OneDarkColors[n]
                                    ELSE c[n]],
     rc |-> OneDarkTheme]

\* the settings in force inside `with mpl.rc_context(rc=theme)`
rc_context_enter(rc, theme) ==
    [k \in DOMAIN rc |-> IF k \in DOMAIN theme THEN theme[k] ELSE rc[k]]

\* a context that leaves its settings in force when it is left
rc_context_keep(before, inside) == inside

\* the settings in force once the `with` block is left, by return or by
\* exception: those in force before it was entered
rc_context_exit(before, inside) == before

PlotNames == {"lineplot", "multi_lineplot", "candlestick", "dividends"}

\* MatplotHistoryPlotter.multi_lineplot(history_df) when the color table is
\* c: the lines take the first colors of the color table, one per column,
\* and set_xlim raises on the limits of a table without rows
MatplotHistoryPlotter_multi_lineplot(c, history_df) ==
    IF Index(history_df) = {} THEN Err("ValueError")
    ELSE Ok([k \in 1..(IF Cardinality(Columns) < Len(ColorNames)
                        THEN Cardinality(Columns) ELSE Len(ColorNames)) |->
                c[ColorNames[k]]])

\* the colors the plotter's method `name` draws with, for ticker 1 and fetch
\* parameter p, when its color table is c.  lineplot takes green or red by
\* the sign of the variation of the retriever it builds (variation > 0 is
\* false for NaN), which fails on an empty table; multi_lineplot is handed the holding's table and takes the
\* first colors of the color table, one per column, and its set_xlim fails
\* on the limits of a table without rows;
\* candlestick is the abstract method's `pass`; dividends draws in green
MatplotHistoryPlotter_plot(name, c, p) ==
    CASE name = "lineplot" ->
            LET variation == HIR_get_variation(HIR_init(1, p))
            IN  IF variation.err # "" THEN variation
                ELSE Ok(<<IF ~IsNaN(variation.val) /\ variation.val[1] > 0
                          THEN c["green"] ELSE c["red"]>>)
      [] name = "multi_lineplot" -> MatplotHistoryPlotter_multi_lineplot(c, History(1, p))
      [] name = "candlestick" -> Ok(<<>>)
      [] name = "dividends" -> Ok(<<c["green"], c["green"]>>)

\* the fetches of a plot call: lineplot and dividends build a retriever
PlotFetches(name, p) ==
    IF name \in {"lineplot", "dividends"} THEN <<<<1, p, NoInterval>>>> ELSE <<>>

\* --------------------------------------------------------------- actions
Classes == {"Portfolio", "ConcretePortfolio"}
HoldingTypes == {"Stock", "ValuedStock"}

HoldingLists == UNION {[1..n -> Values] : n \in 0..MaxHoldings}

Idle ==
    /\ op = "none" /\ target = 0 /\ period = 0 /\ interval = NoInterval
    /\ result = <<>> /\ error = ""
    /\ fetched = <<>> /\ aligned = <<>> /\ down = {}

\* the caller keeps no earlier call to compare with
NoCall == [kept |-> "off", op |-> "none", target |-> 0, period |-> 0,
           interval |-> NoInterval, err |-> "", val |-> <<>>, since |-> "nothing"]

\* no HistoryInformationRetriever is built yet
NoRetriever == [built |-> FALSE, period |-> 0, history_df |-> <<>>, dated |-> FALSE]

\* MatplotHistoryPlotter()
PlotterInit == colors = MatplotColors /\ rcParams = rcdefaults /\ via = ""

Init ==
    /\ PlotterInit
    /\ stocks \in HoldingLists
    /\ market \in Markets(Len(stocks))
    /\ pc = "new"
    /\ percentages = <<>>
    /\ retriever = NoRetriever
    /\ earlier = NoCall
    /\ Idle

\* what the caller keeps of earlier calls once the call `name` on `tgt` has
\* returned r: the first call is kept with what it returned; of the calls
\* made since, whether there was one, and whether one of them was a view of
\* a holding that divides, in place, the table or the series it was answered
Kept(name, tgt, p, iv, r) ==
    IF earlier.kept = "nothing"
    THEN [kept |-> "call", op |-> name, target |-> tgt, period |-> p, interval |-> iv,
          err |-> r.err, val |-> r.val, since |-> "nothing"]
    ELSE IF earlier.kept # "call" THEN earlier
    ELSE IF tgt > 0 /\ name \in {"get_normalized_history_df",
                                  "get_normalized_close_series",
                                  "get_period_valorization"}
    THEN [earlier EXCEPT !.since = "in place"]
    ELSE IF earlier.since = "nothing" THEN [earlier EXCEPT !.since = "calls"]
    ELSE earlier

\* the outcome r of the call `name` on `tgt` with fetch parameter p and no
\* keyword `interval`, made while the fetches of the holdings in d raise
Outcome(name, tgt, p, r, f, a, d) ==
    /\ op' = name
    /\ target' = tgt
    /\ period' = p
    /\ interval' = NoInterval
    /\ result' = r.val
    /\ error' = r.err
    /\ fetched' = f
    /\ aligned' = a
    /\ down' = d
    /\ earlier' = Kept(name, tgt, p, NoInterval, r)
    /\ UNCHANGED <<stocks, pc, percentages, colors, rcParams, via, retriever>>

\* a call that writes into no table it was handed, with every fetch answered
Returns(name, tgt, p, r, f, a) ==
    /\ Outcome(name, tgt, p, r, f, a, {})
    /\ UNCHANGED market

\* the outcome r of the method `name` of holding i called with the fetch
\* parameters p and iv, after which the provider holds m
StockOutcome(name, i, p, iv, r, m) ==
    /\ op' = name
    /\ target' = i
    /\ period' = p
    /\ interval' = iv
    /\ result' = r.val
    /\ error' = r.err
    /\ fetched' = r.fetched
    /\ aligned' = <<>>
    /\ down' = {}
    /\ market' = m
    /\ earlier' = Kept(name, i, p, iv, r)
    /\ UNCHANGED <<stocks, pc, percentages, colors, rcParams, via, retriever>>

\* Portfolio(stocks)
Construct(cls, htype) ==
    /\ pc = "new" /\ op = "none"
    /\ LET r == Portfolio_init(cls, htype, stocks)
       IN  /\ pc' = IF r.err = "" THEN "ok" ELSE "failed"
           /\ percentages' = r.val
           /\ op' = "__init__"
           /\ error' = r.err
    /\ UNCHANGED <<stocks, market, target, period, interval, result, fetched, aligned,
                   down, colors, rcParams, via, retriever, earlier>>

\* the caller lets go of the outcome of the last call
Drop ==
    /\ op # "none"
    /\ op' = "none" /\ target' = 0 /\ period' = 0 /\ interval' = NoInterval
    /\ result' = <<>> /\ error' = ""
    /\ fetched' = <<>> /\ aligned' = <<>> /\ down' = {} /\ via' = ""
    /\ UNCHANGED <<stocks, market, pc, percentages, colors, rcParams, retriever, earlier>>

GetHistoryDf(p) ==
    /\ pc = "ok" /\ op = "none"
    /\ Returns("get_history_df", 0, p, Portfolio_get_history_df(p), FetchEach(p, {}).fetched, <<>>)

GetNormalizedHistoryDf(p) ==
    /\ pc = "ok" /\ op = "none"
    /\ Returns("get_normalized_history_df", 0, p,
               Portfolio_get_normalized_history_df(p), FetchEach(p, {}).fetched, <<>>)

GetCloseSeries(p) ==
    /\ pc = "ok" /\ op = "none"
    /\ Returns("get_close_series", 0, p, Portfolio_get_close_series(p), FetchEach(p, {}).fetched, <<>>)

GetNormalizedCloseSeries(p) ==
    /\ pc = "ok" /\ op = "none"
    /\ Returns("get_normalized_close_series", 0, p,
               Portfolio_get_normalized_close_series(p), FetchEach(p, {}).fetched, <<>>)

GetPeriodValorization(p) ==
    /\ pc = "ok" /\ op = "none"
    /\ Returns("get_period_valorization", 0, p,
               Portfolio_get_period_valorization(p), FetchEach(p, {}).fetched, <<>>)

GetCorrelations(p) ==
    /\ pc = "ok" /\ op = "none"
    /\ LET r == Portfolio_get_correlations(p)
       IN  Returns("get_correlations", 0, p, r, r.fetched, r.aligned)

\* stock.get_normalized_history_df(**history_kwargs) on holding i:
\* history_df /= history_df.iloc[0] writes into the table the fetch handed out
StockGetNormalizedHistoryDf(i, p, iv) ==
    /\ op = "none"
    /\ LET r == Stock_get_normalized_history_df(i, p, iv)
       IN  StockOutcome("get_normalized_history_df", i, p, iv, r,
                        ProviderAfterWrite(i, r.val))

Next ==
    \/ \E cls \in Classes, htype \in HoldingTypes : Construct(cls, htype)
    \/ \E p \in Periods : GetHistoryDf(p)
    \/ \E p \in Periods : GetNormalizedHistoryDf(p)
    \/ \E p \in Periods : GetCloseSeries(p)
    \/ \E p \in Periods : GetNormalizedCloseSeries(p)
    \/ \E p \in Periods : GetPeriodValorization(p)
    \/ \E p \in Periods : GetCorrelations(p)
    \* a holding used on its own, before the list is handed to Portfolio
    \/ \E i \in 1..N, p \in Periods :
          pc = "new" /\ StockGetNormalizedHistoryDf(i, p, NoInterval)
    \/ Drop

Spec == Init /\ [][Next]_vars

\* ------------------------------------------------- a holding on its own
\* every table over the timestamps the provider knows
Tables ==
    LET CloseValues == {NaN, Num(0), Num(9), Num(10), Num(12)}
        DividendValues == {Num(0), Num(1)}
    IN  UNION {[S -> {[c \in Columns |-> IF c = "Close" THEN v[1] ELSE v[2]] :
                        v \in CloseValues \X DividendValues}] : S \in SUBSET T}

InitStock ==
    /\ PlotterInit
    /\ stocks = <<1>>
    /\ market \in {<<tbl>> : tbl \in Tables}
    /\ pc = "new"
    /\ percentages = <<>>
    /\ retriever = NoRetriever
    /\ earlier = NoCall
    /\ Idle

\* Stock(ticker_code, value) builds the Ticker and fetches nothing
StockInit(i) ==
    /\ op = "none"
    /\ StockOutcome("__init__", i, 0, NoInterval,
                    [err |-> "", val |-> <<>>, fetched |-> <<>>], market)

StockGetStockName(i) ==
    /\ op = "none"
    /\ StockOutcome("get_stock_name", i, 0, NoInterval, Stock_get_stock_name(i), market)

StockGetHistoryDf(i, p, iv) ==
    /\ op = "none"
    /\ StockOutcome("get_history_df", i, p, iv, Stock_get_history_df(i, p, iv), market)

StockGetCloseSeries(i, p, iv) ==
    /\ op = "none"
    /\ StockOutcome("get_close_series", i, p, iv, Stock_get_close_series(i, p, iv), market)

\* the fetched table once close_series /= close_series.iloc[0] has written
\* into its Close column
WrittenClose(i, p) ==
    LET n_close_series == Stock_get_normalized_close_series(i, p, NoInterval)
    IN  IF n_close_series.err # "" THEN History(i, p)
        ELSE [t \in Index(History(i, p)) |->
                [c \in Columns |-> IF c = "Close" THEN n_close_series.val[t]
                                   ELSE History(i, p)[t][c]]]

StockGetNormalizedCloseSeries(i, p, iv) ==
    /\ op = "none"
    /\ StockOutcome("get_normalized_close_series", i, p, iv,
                    Stock_get_normalized_close_series(i, p, iv),
                    ProviderAfterWrite(i, WrittenClose(i, p)))

StockGetPeriodValorization(i, p) ==
    /\ op = "none"
    /\ StockOutcome("get_period_valorization", i, p, NoInterval,
                    Stock_get_period_valorization(i, p),
                    ProviderAfterWrite(i, WrittenClose(i, p)))

StockGetDividendsSeries(i, p, iv) ==
    /\ op = "none"
    /\ StockOutcome("get_dividends_series", i, p, iv,
                    Stock_get_dividends_series(i, p, iv), market)

StockGetMonthlyDividendsSeries(i, p, iv) ==
    /\ op = "none"
    /\ StockOutcome("get_monthly_dividends_series", i, p, iv,
                    Stock_get_monthly_dividends_series(i, p, iv), market)

StockGetPeriodDividends(i, p) ==
    /\ op = "none"
    /\ StockOutcome("get_period_dividends", i, p, NoInterval,
                    Stock_get_period_dividends(i, p), market)

\* the retriever built by the constructor call `name`, which issued the
\* fetches f and stored the table history_df, with the column 'Date' or not
RetrieverBuilt(name, p, f, history_df, dated) ==
    /\ op' = name
    /\ target' = 1
    /\ period' = p
    /\ interval' = NoInterval
    /\ result' = <<>>
    /\ error' = ""
    /\ fetched' = f
    /\ aligned' = <<>>
    /\ down' = {}
    /\ retriever' = [built |-> TRUE, period |-> p, history_df |-> history_df,
                     dated |-> dated]
    /\ UNCHANGED <<stocks, market, pc, percentages, colors, rcParams, via, earlier>>

\* HistoryInformationRetriever(ticker_code, **history_kwargs) fetches the
\* table once, when it is built, and stores it; a new retriever takes the
\* place of the old one
RetrieverInit(p) ==
    /\ op = "none"
    /\ RetrieverBuilt("HistoryInformationRetriever", p, <<<<1, p, NoInterval>>>>,
                      HIR_init(1, p), TRUE)

\* HistoryInformationRetriever(ticker_code, history_df=df) stores the table
\* it is handed as it is and fetches nothing; df holds the rows the caller
\* was answered with fetch parameter p before, either as
\* Stock.get_history_df returned them (dates in the index, no column
\* 'Date') or with the dates in a column 'Date'
RetrieverInitWith(p, dated) ==
    /\ op = "none"
    /\ RetrieverBuilt("HistoryInformationRetriever(history_df)", p, <<>>, History(1, p),
                      dated)

\* the getters of a built retriever fetch nothing and read the stored table
RetrieverGetNormalizedValuesOverTime ==
    /\ op = "none" /\ retriever.built
    /\ Returns("get_normalized_values_over_time", 1, retriever.period,
               HIR_get_normalized_values_over_time(retriever.history_df, retriever.dated), <<>>, <<>>)

RetrieverGetVariation ==
    /\ op = "none" /\ retriever.built
    /\ Returns("get_variation", 1, retriever.period,
               HIR_get_variation(retriever.history_df), <<>>, <<>>)

NextStock ==
    \/ StockInit(1)
    \/ StockGetStockName(1)
    \/ \E p \in Periods, iv \in Intervals : StockGetHistoryDf(1, p, iv)
    \/ \E p \in Periods, iv \in Intervals : StockGetNormalizedHistoryDf(1, p, iv)
    \/ \E p \in Periods, iv \in Intervals : StockGetCloseSeries(1, p, iv)
    \/ \E p \in Periods, iv \in Intervals : StockGetNormalizedCloseSeries(1, p, iv)
    \/ \E p \in Periods : StockGetPeriodValorization(1, p)
    \/ \E p \in Periods, iv \in Intervals : StockGetDividendsSeries(1, p, iv)
    \/ \E p \in Periods, iv \in Intervals : StockGetMonthlyDividendsSeries(1, p, iv)
    \/ \E p \in Periods : StockGetPeriodDividends(1, p)
    \/ \E p \in Periods : RetrieverInit(p)
    \/ \E p \in Periods, dated \in BOOLEAN : RetrieverInitWith(p, dated)
    \/ RetrieverGetNormalizedValuesOverTime
    \/ RetrieverGetVariation
    \/ Drop

SpecStock == InitStock /\ [][NextStock]_vars

\* --------------------------------- a Portfolio whose provider may fail
GetHistoryDfWhen(p, d) ==
    /\ pc = "ok" /\ op = "none"
    /\ Outcome("get_history_df", 0, p, Portfolio_get_history_df_when(p, d),
               FetchEach(p, d).fetched, <<>>, d)
    /\ UNCHANGED market

GetCorrelationsWhen(p, d) ==
    /\ pc = "ok" /\ op = "none"
    /\ LET r == Portfolio_get_correlations_when(p, d)
       IN  Outcome("get_correlations", 0, p, r, r.fetched, r.aligned, d)
    /\ UNCHANGED market

NextFetch ==
    \/ \E cls \in Classes, htype \in HoldingTypes : Construct(cls, htype)
    \/ \E p \in Periods, d \in SUBSET (1..N) : GetHistoryDfWhen(p, d)
    \/ \E p \in Periods, d \in SUBSET (1..N) : GetCorrelationsWhen(p, d)
    \/ Drop

SpecFetch == Init /\ [][NextFetch]_vars

\* ---------------------- the Portfolio's dividend views and its plotter
GetDividendsSeries(p) ==
    /\ pc = "ok" /\ op = "none"
    /\ Returns("get_dividends_series", 0, p, Portfolio_get_dividends_series(p),
               FetchEach(p, {}).fetched, <<>>)

GetMonthlyDividendsSeries(p) ==
    /\ pc = "ok" /\ op = "none"
    /\ Returns("get_monthly_dividends_series", 0, p,
               Portfolio_get_monthly_dividends_series(p), FetchEach(p, {}).fetched, <<>>)

GetPeriodDividends(p) ==
    /\ pc = "ok" /\ op = "none"
    /\ Returns("get_period_dividends", 0, p, Portfolio_get_period_dividends(p),
               FetchEach(p, {}).fetched, <<>>)

\* PortfolioPlotter(portfolio, plotter).plot_portfolio_as_stock(**history_kwargs)
PlotPortfolioAsStock(p) ==
    /\ pc = "ok" /\ op = "none"
    /\ Returns("plot_portfolio_as_stock", 0, p,
               PortfolioPlotter_plot_portfolio_as_stock(p), <<>>, <<>>)

\* PortfolioPlotter(portfolio, plotter).plot_portfolio(**history_kwargs)
PlotPortfolio(p) ==
    /\ pc = "ok" /\ op = "none"
    /\ Returns("plot_portfolio", 0, p, PortfolioPlotter_plot_portfolio(p), <<>>, <<>>)

\* PortfolioPlotter(portfolio, plotter).<name>(**history_kwargs) for the two
\* plots of the tickers, where plotter is the MatplotHistoryPlotter itself
\* or, when decorated, OneDarkPlotDecorator(it).  The Portfolio fetches
\* every holding for the table first; an error of that call leaves before
\* the plotter is called.  The decorator's multi_lineplot gets the theme,
\* which writes the decorated plotter's color table, and draws inside the
\* rc context, which is left by return or by exception
PlotTickers(name, p, decorated) ==
    /\ pc = "ok" /\ op = "none"
    /\ \E history_df \in {PortfolioPlotter_history_df(name, p)} :
       LET called == history_df.err = ""
           theme == get_theme(colors)
           inside == IF decorated THEN rc_context_enter(rcParams, theme.rc) ELSE rcParams
           drawn == IF ~called THEN history_df
                    ELSE MatplotHistoryPlotter_multi_lineplot(
                             IF decorated THEN theme.colors ELSE colors, history_df.val)
       IN  /\ op' = name
           /\ target' = 0
           /\ period' = p
           /\ interval' = NoInterval
           /\ result' = IF drawn.err # "" THEN <<>> ELSE [colors |-> drawn.val, rc |-> inside]
           /\ error' = drawn.err
           /\ fetched' = FetchEach(p, {}).fetched
           /\ aligned' = <<>>
           /\ down' = {}
           /\ via' = IF ~called THEN "" ELSE IF decorated THEN "decorator" ELSE "plotter"
           /\ colors' = IF called /\ decorated THEN theme.colors ELSE colors
           /\ rcParams' = IF called /\ decorated THEN rc_context_exit(rcParams, inside)
                          ELSE rcParams
    /\ UNCHANGED <<stocks, market, pc, percentages, retriever, earlier>>

NextViews ==
    \/ \E cls \in Classes, htype \in HoldingTypes : Construct(cls, htype)
    \/ \E p \in Periods : GetDividendsSeries(p)
    \/ \E p \in Periods : GetMonthlyDividendsSeries(p)
    \/ \E p \in Periods : GetPeriodDividends(p)
    \/ \E p \in Periods : PlotPortfolioAsStock(p)
    \/ \E p \in Periods : PlotPortfolio(p)
    \/ \E name \in {"plot_individual_tickers", "plot_normalized_individual_tickers"},
          p \in Periods, decorated \in BOOLEAN : PlotTickers(name, p, decorated)
    \/ Drop

SpecViews == Init /\ [][NextViews]_vars

\* ------------------------------------------- the plotter and its decorator
\* what a plot call leaves: the colors it drew with and the rc settings
\* that were in force while it drew
Plotted(name, p, r, inside, who) ==
    /\ op' = name
    /\ target' = 1
    /\ period' = p
    /\ interval' = NoInterval
    /\ result' = IF r.err # "" THEN <<>> ELSE [colors |-> r.val, rc |-> inside]
    /\ error' = r.err
    /\ fetched' = PlotFetches(name, p)
    /\ aligned' = <<>>
    /\ down' = {}
    /\ via' = who
    /\ UNCHANGED <<stocks, market, pc, percentages, retriever, earlier>>

\* plotter.<name>(...) on the plotter itself
Plot(name, p) ==
    /\ op = "none"
    /\ Plotted(name, p, MatplotHistoryPlotter_plot(name, colors, p), rcParams, "plotter")
    /\ UNCHANGED <<colors, rcParams>>

\* OneDarkPlotDecorator(plotter).<name>(...):
\*     with mpl.rc_context(rc=self._get_theme()):
\*         self._decorated_obj.<name>(*args, **kwargs)
PlotDecorated(name, p) ==
    /\ op = "none"
    /\ LET theme == get_theme(colors)
           inside == rc_context_enter(rcParams, theme.rc)
       IN  /\ Plotted(name, p, MatplotHistoryPlotter_plot(name, theme.colors, p),
                      inside, "decorator")
           /\ colors' = theme.colors
           /\ rcParams' = rc_context_exit(rcParams, inside)

\* plotter = MatplotHistoryPlotter(): a new plotter takes the place of the
\* old one
NewPlotter ==
    /\ op = "none"
    /\ op' = "MatplotHistoryPlotter" /\ via' = "plotter"
    /\ colors' = MatplotColors
    /\ rcParams' = rcdefaults
    /\ UNCHANGED <<stocks, market, pc, percentages, target, period, interval, result,
                   error, fetched, aligned, down, retriever, earlier>>

NextPlotter ==
    \/ NewPlotter
    \/ \E name \in PlotNames, p \in Periods : Plot(name, p)
    \/ \E name \in PlotNames, p \in Periods : PlotDecorated(name, p)
    \/ Drop

SpecPlotter == InitStock /\ [][NextPlotter]_vars

\* ------------------------ views called again on a constructed Portfolio
RepeatHoldings == 2
RepeatGaps == 0

\* a Portfolio of one or two holdings that __init__ has accepted, with the
\* weights it has set; the caller keeps the first call it makes
InitRepeat ==
    /\ PlotterInit
    /\ stocks \in {v \in UNION {[1..n -> Values] : n \in 1..RepeatHoldings} :
                      Portfolio_init("ConcretePortfolio", "ValuedStock", v).err = ""}
    /\ market \in MarketsUpTo(Len(stocks), RepeatGaps)
    /\ pc = "ok"
    /\ percentages = Portfolio_init("ConcretePortfolio", "ValuedStock", stocks).val
    /\ retriever = NoRetriever
    /\ earlier = [NoCall EXCEPT !.kept = "nothing"]
    /\ Idle

NextRepeat ==
    \/ \E p \in Periods : GetHistoryDf(p)
    \/ \E p \in Periods : GetNormalizedHistoryDf(p)
    \/ \E p \in Periods : GetCloseSeries(p)
    \/ \E p \in Periods : GetNormalizedCloseSeries(p)
    \/ \E p \in Periods : GetPeriodValorization(p)
    \/ \E p \in Periods : GetCorrelations(p)
    \/ \E p \in Periods : GetDividendsSeries(p)
    \/ \E p \in Periods : GetMonthlyDividendsSeries(p)
    \/ \E p \in Periods : GetPeriodDividends(p)
    \/ \E i \in 1..N : StockGetStockName(i)
    \/ \E i \in 1..N, p \in Periods : StockGetHistoryDf(i, p, NoInterval)
    \/ \E i \in 1..N, p \in Periods : StockGetNormalizedHistoryDf(i, p, NoInterval)
    \/ \E i \in 1..N, p \in Periods : StockGetCloseSeries(i, p, NoInterval)
    \/ \E i \in 1..N, p \in Periods : StockGetNormalizedCloseSeries(i, p, NoInterval)
    \/ \E i \in 1..N, p \in Periods : StockGetPeriodValorization(i, p)
    \/ \E i \in 1..N, p \in Periods : StockGetDividendsSeries(i, p, NoInterval)
    \/ \E i \in 1..N, p \in Periods : StockGetMonthlyDividendsSeries(i, p, NoInterval)
    \/ \E i \in 1..N, p \in Periods : StockGetPeriodDividends(i, p)
    \/ Drop

SpecRepeat == InitRepeat /\ [][NextRepeat]_vars

\* ================================================================ claims
RECURSIVE IntSum(_)
IntSum(values) == IF values = <<>> THEN 0 ELSE Head(values) + IntSum(Tail(values))

\* the float literals 1e-3 and 0.5, and the float n / d
Thousandth == Div(Num(1), Num(1000))

Half == Float(0, QNorm(1, 2), QInt(0))

Ratio(n, d) == Div(Num(n), Num(d))

GetOps == {"get_history_df", "get_normalized_history_df", "get_close_series",
           "get_normalized_close_series", "get_period_valorization",
           "get_correlations"}

\* C1: a constructed Portfolio's weights sum to 1 within 1e-3 and are as
\* many as its holdings, and no step taken on a constructed Portfolio (any
\* get_* call, or dropping its outcome) changes the weights or the holdings.
C1_WeightsInvariant ==
    [][pc = "ok" =>
        /\ Leq(Sub(SumSeq(percentages), One), Thousandth)
        /\ Leq(Sub(One, SumSeq(percentages)), Thousandth)
        /\ Len(percentages) = Len(stocks)
        /\ percentages' = percentages
        /\ stocks' = stocks
        /\ pc' = "ok"]_vars

C1_Witness ==
    /\ pc = "ok" /\ N = 3 /\ op = "get_correlations" /\ error = ""
    /\ percentages = <<Ratio(1, 4), Half, Ratio(1, 4)>>

\* C2: at construction the weight of holding i is value[i] / sum(value), in
\* holdings order; two holdings of equal value weigh 1/2 each and a single
\* holding weighs 1.
C2_WeightIsValueShare ==
    pc = "ok" =>
        /\ \A i \in 1..N : percentages[i] = Div(Num(stocks[i]), Num(IntSum(stocks)))
        /\ (N = 2 /\ stocks[1] = stocks[2] => percentages = <<Half, Half>>)
        /\ (N = 1 => percentages = <<One>>)

C2_Witness ==
    /\ pc = "ok" /\ op = "__init__"
    /\ stocks = <<1, 2>> /\ percentages = <<Ratio(1, 3), Ratio(2, 3)>>
    /\ Residue(percentages[1]) # QInt(0)

\* C3 (as claimed): every weight of a constructed Portfolio is non-negative;
\* values that would give a negative weight make construction fail.
C3_WeightsNonNegative ==
    pc = "ok" => \A i \in 1..N : ~Less(percentages[i], Zero)

\* the close series the provider gives for holding i in the window p
CloseOf(i, p) == [t \in Index(History(i, p)) |-> History(i, p)[t]["Close"]]

\* the sum over the holdings 1..k that have a non-null cell (t, c) of
\* weight * cell
RECURSIVE WeightedCellSum(_, _, _, _)
WeightedCellSum(k, t, c, p) ==
    IF k = 0 THEN Zero
    ELSE LET rest == WeightedCellSum(k - 1, t, c, p)
             df == History(k, p)
         IN  IF t \in Index(df) /\ ~IsNaN(df[t][c])
             THEN Add(rest, Mul(percentages[k], df[t][c]))
             ELSE rest

\* C4: the blended table of get_history_df has the union of the holdings'
\* timestamps as its rows, and its cell (t, c) is the sum over the holdings
\* of weight * cell, a holding with no row at t (or with a null cell there)
\* counting as 0; the cell is null only when no holding has a value there.
C4_BlendIsWeightedSum ==
    (op = "get_history_df" /\ target = 0 /\ error = "") =>
        /\ Index(result) = UNION {Index(History(i, period)) : i \in 1..N}
        /\ \A t \in Index(result), c \in Columns :
              result[t][c] =
                  IF \A i \in 1..N : t \notin Index(History(i, period))
                                        \/ IsNaN(History(i, period)[t][c])
                  THEN NaN
                  ELSE WeightedCellSum(N, t, c, period)

C4_Witness ==
    /\ op = "get_history_df" /\ target = 0 /\ error = "" /\ N = 3
    /\ \E t \in Index(result), i \in 1..N :
          /\ t \in Index(History(i, period))
          /\ \A j \in (1..N) \ {i} : t \notin Index(History(j, period))
          /\ result[t]["Close"] = Mul(percentages[i], History(i, period)[t]["Close"])
          /\ percentages[i] # One
    /\ \E t \in Index(result) : \A i \in 1..N : t \in Index(History(i, period))

\* C5: in get_correlations the two series handed to the correlation routine
\* for a pair have the same index, exactly the timestamps at which both
\* fetched close series have a non-null value, with the fetched values, and
\* the fetched series are left as they were.
C5_AlignedOnCommonNonNull ==
    op = "get_correlations" =>
        \A k \in 1..Len(aligned) :
            LET a == aligned[k]
                both == {t \in DOMAIN a.fetched1 \cap DOMAIN a.fetched2 :
                            ~IsNaN(a.fetched1[t]) /\ ~IsNaN(a.fetched2[t])}
            IN  /\ a.fetched1 = CloseOf(a.pair[1], period)
                /\ a.fetched2 = CloseOf(a.pair[2], period)
                /\ DOMAIN a.history1 = both
                /\ DOMAIN a.history2 = both
                /\ \A t \in both : a.history1[t] = a.fetched1[t]
                                   /\ a.history2[t] = a.fetched2[t]
                /\ a.after1 = a.fetched1
                /\ a.after2 = a.fetched2

C5_Witness ==
    /\ op = "get_correlations"
    /\ \E k \in 1..Len(aligned) :
          LET a == aligned[k]
          IN  \E t, u \in DOMAIN a.fetched1 \cap DOMAIN a.fetched2 :
                /\ t # u
                /\ IsNaN(a.fetched1[t]) /\ ~IsNaN(a.fetched2[t])
                /\ IsNaN(a.fetched2[u]) /\ ~IsNaN(a.fetched1[u])
                /\ t \notin DOMAIN a.history1 /\ u \notin DOMAIN a.history1
                /\ t \notin DOMAIN a.history2 /\ u \notin DOMAIN a.history2
                /\ DOMAIN a.history1 # {}

\* C6: a successful get_correlations on n holdings returns n*(n-1)/2
\* records, each with an earlier and a later holding of the list and a
\* coefficient, in the lexicographic order of the pairs; none for n = 1.
C6_OneRecordPerPair ==
    (op = "get_correlations" /\ error = "") =>
        /\ 2 * Len(result) = N * (N - 1)
        /\ \A k \in 1..Len(result) :
              /\ result[k].stock1 \in 1..N /\ result[k].stock2 \in 1..N
              /\ result[k].stock1 < result[k].stock2
              /\ IsNaN(result[k].correlation)
                    \/ (Leq(Num(-1), result[k].correlation)
                        /\ Leq(result[k].correlation, One))
        /\ \A k \in 1..(Len(result) - 1) :
              \/ result[k].stock1 < result[k + 1].stock1
              \/ /\ result[k].stock1 = result[k + 1].stock1
                 /\ result[k].stock2 < result[k + 1].stock2
        /\ (N <= 1 => result = <<>>)

C6_Witness ==
    /\ op = "get_correlations" /\ error = "" /\ N = 3 /\ Len(result) = 3
    /\ <<result[1].stock1, result[1].stock2>> = <<1, 2>>
    /\ <<result[2].stock1, result[2].stock2>> = <<1, 3>>
    /\ <<result[3].stock1, result[3].stock2>> = <<2, 3>>

\* C7 (as claimed): when some pair's close series share fewer than 2
\* non-null timestamps, get_correlations fails with InsufficientDataError.
C7_InsufficientDataError ==
    (/\ op = "get_correlations"
     /\ \E i, j \in 1..N :
           /\ i < j
           /\ Cardinality(NonNullIndex(CloseOf(i, period))
                          \cap NonNullIndex(CloseOf(j, period))) < 2) =>
        (error = "InsufficientDataError" /\ result = <<>>)

\* r is the float x / f for two numbers x and f, f not 0
IsQuotient(r, x, f) == IsFinite(r) /\ r = Div(x, f)

IsNumber(x) == IsFinite(x)

\* C8: for a holding whose fetched close series S is not empty and starts
\* with a number other than 0, get_normalized_close_series (and the
\* get_normalized_values_over_time of a retriever whose table has the column
\* 'Date', as the table it fetches itself has) returns the series over the
\* same timestamps with S[i] / S[0] at every position, so 1 at the first;
\* the closes 10, 12, 9 give 1, 6/5, 9/10.
C8_NormalizedClose ==
    (/\ op \in {"get_normalized_close_series", "get_normalized_values_over_time"}
     /\ op = "get_normalized_values_over_time" => retriever.dated
     /\ target = 1
     /\ DOMAIN CloseOf(1, period) # {}
     /\ IsNumber(CloseOf(1, period)[Min(DOMAIN CloseOf(1, period))])
     /\ CloseOf(1, period)[Min(DOMAIN CloseOf(1, period))] # Zero) =>
        LET S == CloseOf(1, period)
            first == Min(DOMAIN S)
        IN  /\ error = ""
            /\ DOMAIN result = DOMAIN S
            /\ result[first] = One
            /\ \A t \in DOMAIN S :
                  IF IsNaN(S[t]) THEN IsNaN(result[t])
                  ELSE IsQuotient(result[t], S[t], S[first])
            /\ (S = <<Num(10), Num(12), Num(9)>> =>
                    result = <<One, Ratio(6, 5), Ratio(9, 10)>>)

C8_Witness ==
    /\ op = "get_normalized_close_series" /\ target = 1 /\ error = ""
    /\ CloseOf(1, period) = <<Num(10), Num(12), Num(9)>>
    /\ result = <<One, Ratio(6, 5), Ratio(9, 10)>>

\* C9 (as claimed): for a holding whose close series over the period starts
\* with f, a number other than 0, and ends with the number l,
\* get_period_valorization returns the variation (l - f) / f.
C9_ValorizationIsVariation ==
    (/\ op = "get_period_valorization"
     /\ target = 1
     /\ DOMAIN CloseOf(1, period) # {}
     /\ IsNumber(CloseOf(1, period)[Min(DOMAIN CloseOf(1, period))])
     /\ CloseOf(1, period)[Min(DOMAIN CloseOf(1, period))] # Zero
     /\ IsNumber(CloseOf(1, period)[Max(DOMAIN CloseOf(1, period))])) =>
        LET S == CloseOf(1, period)
            f == S[Min(DOMAIN S)]
            l == S[Max(DOMAIN S)]
        IN  /\ error = ""
            /\ IsQuotient(result, Sub(l, f), f)

\* the table that get_normalized_history_df of the call's target normalizes
HistoryOfTarget ==
    IF target = 0 THEN Portfolio_get_history_df(period).val
    ELSE History(target, period)

\* C10: get_normalized_history_df of a table with at least one row returns
\* every row divided column-wise by the first row, and the first row of the
\* result is 1 in every column, also when the first row of the table has a
\* 0 in some column.  The division is unguarded: a column that starts with
\* 0 has a null first row and infinite or null other rows.
C10_FirstRowAllOnes ==
    (op = "get_normalized_history_df" /\ Index(HistoryOfTarget) # {}) =>
        /\ error = ""
        /\ Index(result) = Index(HistoryOfTarget)
        /\ \A c \in Columns : result[Min(Index(result))][c] = One

\* the dividends column of the table fetched for holding i
DividendsOf(i, p) == [t \in Index(History(i, p)) |-> History(i, p)[t]["Dividends"]]

\* the months in which the dividends series of holding i has a time point
MonthsWithPoints(i, p) == {MonthOf(t) : t \in DOMAIN DividendsOf(i, p)}

\* C11 (as claimed): a holding's get_monthly_dividends_series has one entry
\* for each calendar month that holds a time point of the dividends series,
\* with the sum of the month's dividends, and no entry for a month between
\* two such months in which the series has no time point.
C11_OnlyMonthsWithPoints ==
    (op = "get_monthly_dividends_series" /\ target = 1) =>
        /\ error = ""
        /\ DOMAIN result = MonthsWithPoints(1, period)
        /\ \A m \in DOMAIN result :
              result[m] = SumOver(DividendsOf(1, period),
                                  {t \in DOMAIN DividendsOf(1, period) : MonthOf(t) = m})

\* C11 (amended): for a dividends series with at least one time point,
\* get_monthly_dividends_series has one entry for every calendar month from
\* the month of the first time point to the month of the last: the sum of the
\* month's dividends where the month holds time points, and 0 where it holds
\* none.
C11_EveryMonthOfTheSpan ==
    (/\ op = "get_monthly_dividends_series" /\ target = 1
     /\ DOMAIN DividendsOf(1, period) # {}) =>
        LET S == DividendsOf(1, period)
            months == MonthsWithPoints(1, period)
        IN  /\ error = ""
            /\ DOMAIN result = {m \in Min(months)..Max(months) : TRUE}
            /\ \A m \in DOMAIN result :
                  IF m \in months
                  THEN result[m] = SumOver(S, {t \in DOMAIN S : MonthOf(t) = m})
                  ELSE result[m] = Zero

\* a month without a time point has an entry, and a month with two
\* dividends has their sum
C11_Witness ==
    /\ op = "get_monthly_dividends_series" /\ target = 1 /\ error = ""
    /\ \E m \in DOMAIN result : m \notin MonthsWithPoints(1, period) /\ result[m] = Zero
    /\ \E m \in DOMAIN result : result[m] = Num(2)

\* the value holding i contributes at timestamp t to the portfolio seen as
\* one series: its close at t over its own first close, times its invested
\* value, and 0 where it has no row
ValueAt(i, p, t) ==
    LET S == CloseOf(i, p)
    IN  IF t \in DOMAIN S THEN Mul(Num(stocks[i]), Div(S[t], S[Min(DOMAIN S)]))
        ELSE Zero

\* C12 (as claimed): the Portfolio offers the aggregate that
\* PortfolioPlotter.plot_portfolio_as_stock draws: over the union of the
\* holdings' timestamps, the sum of every holding's close, normalized to its
\* own first value and multiplied by its invested value, so the plot is made
\* without an error.
C12_PortfolioAsSingleSeries ==
    op = "plot_portfolio_as_stock" =>
        /\ error = ""
        /\ DOMAIN result = UNION {DOMAIN CloseOf(i, period) : i \in 1..N}
        /\ \A t \in DOMAIN result :
              result[t] = SumSeq([i \in 1..N |-> ValueAt(i, period, t)])

\* the Dividends column of the Portfolio's blended table
BlendedDividends(p) ==
    [t \in Index(Portfolio_get_history_df(p).val) |->
        Portfolio_get_history_df(p).val[t]["Dividends"]]

\* C20 (as claimed): on a Portfolio whose blended table has the provider's
\* columns, get_dividends_series returns the Dividends column of the blended
\* table, get_period_dividends its sum and get_monthly_dividends_series its
\* monthly sums: the three calls return a value and do not fail.
C20_DividendViewsReturn ==
    (/\ op \in {"get_dividends_series", "get_period_dividends",
                "get_monthly_dividends_series"}
     /\ target = 0 /\ N >= 1) =>
        /\ error = ""
        /\ op = "get_dividends_series" => result = BlendedDividends(period)
        /\ op = "get_period_dividends" => result = Sum(BlendedDividends(period))
        /\ op = "get_monthly_dividends_series" =>
              result = resample_MS_sum(BlendedDividends(period))

\* the fetches a call on the Portfolio issues when none fails and the call
\* runs to its end
RECURSIVE PairFetches(_, _)
PairFetches(pairs, p) ==
    IF pairs = <<>> THEN <<>>
    ELSE <<<<Head(pairs)[1], p, NoInterval>>, <<Head(pairs)[2], p, NoInterval>>>>
         \o PairFetches(Tail(pairs), p)

FullFetchOrder ==
    IF op = "get_correlations" THEN PairFetches(combinations(N), period)
    ELSE [i \in 1..N |-> <<i, period, NoInterval>>]

\* C13: when the fetch of a holding raises during get_history_df or
\* get_correlations, the call raises that error at once: the fetches issued
\* are the first ones of the call's fetch order, each issued once, the
\* failing fetch is the last one issued, and the call returns neither a
\* table nor a record list.
C13_FetchFailurePropagates ==
    (op \in {"get_history_df", "get_correlations"} /\ target = 0) =>
        /\ Len(fetched) <= Len(FullFetchOrder)
        /\ fetched = SubSeq(FullFetchOrder, 1, Len(fetched))
        /\ \A k \in 1..(Len(fetched) - 1) : fetched[k][1] \notin down
        /\ error = "ProviderError" <=>
              (fetched # <<>> /\ fetched[Len(fetched)][1] \in down)
        /\ error = "ProviderError" => result = <<>>
        /\ (op = "get_history_df" /\ down # {}) =>
              /\ error = "ProviderError"
              /\ \A i \in 1..N : i \in down => Len(fetched) <= i

\* the third holding's fetch raises in the second pair of get_correlations,
\* after the first pair has been fetched and correlated
C13_Witness ==
    /\ op = "get_correlations" /\ N = 3 /\ down = {3}
    /\ error = "ProviderError" /\ result = <<>> /\ Len(aligned) = 1
    /\ fetched = <<<<1, period, NoInterval>>, <<2, period, NoInterval>>,
                   <<1, period, NoInterval>>, <<3, period, NoInterval>>>>

\* the call whose outcome is held is the call the caller kept, made again
\* with the same fetch parameters after other calls
KeptCallAgain ==
    /\ earlier.kept = "call" /\ earlier.since # "nothing"
    /\ op = earlier.op /\ target = earlier.target
    /\ period = earlier.period /\ interval = earlier.interval

\* C14: while the provider answers a fetch with the same table, a get_* view
\* of a holding or of the Portfolio called again with the same fetch
\* parameters returns what it returned the first time (the same value, or
\* the same error), whatever get_* views were called in between, the
\* holdings' in-place normalizing ones included.
C14_ViewsIdempotent ==
    KeptCallAgain => (error = earlier.err /\ result = earlier.val)

\* get_history_df of holding 1 returns the table it returned the first
\* time, after an in-place normalizing view of a holding divided the table
\* it was answered
C14_Witness ==
    /\ KeptCallAgain /\ earlier.since = "in place"
    /\ op = "get_history_df" /\ target = 1 /\ error = ""
    /\ result = earlier.val
    /\ Cardinality(Index(result)) >= 2
    /\ Stock_get_normalized_history_df(1, period, interval).val # result

\* the history views of a Stock that take **history_kwargs and pass them on
KwargsViews == {"get_history_df", "get_normalized_history_df", "get_close_series",
                "get_normalized_close_series", "get_dividends_series"}

\* the views that take the period alone
PeriodViews == {"get_period_valorization", "get_period_dividends"}

StockViews == KwargsViews \cup PeriodViews \cup {"get_monthly_dividends_series"}

\* C15 (as claimed): a holding's price table is fetched once, when the
\* holding is constructed, and no get_* call on the holding issues a fetch.
C15_FetchedOnceAtConstruction ==
    target = 1 =>
        /\ op = "__init__" => Len(fetched) = 1
        /\ op \in StockViews \cup {"get_stock_name"} => fetched = <<>>

\* C15 (amended): constructing a holding issues no fetch, and neither does
\* get_stock_name.  Every history view issues exactly one fetch per call,
\* for the holding's ticker: with the period and the interval of the call
\* for the views that pass their keywords on, with the period and without
\* the interval for get_monthly_dividends_series, which deletes it, and
\* with the period alone for get_period_valorization and
\* get_period_dividends.
C15_FetchedOnEveryCall ==
    target = 1 =>
        /\ op \in {"__init__", "get_stock_name"} => fetched = <<>>
        /\ op \in KwargsViews => fetched = <<<<1, period, interval>>>>
        /\ op = "get_monthly_dividends_series" => fetched = <<<<1, period, NoInterval>>>>
        /\ op \in PeriodViews =>
              interval = NoInterval /\ fetched = <<<<1, period, NoInterval>>>>

\* get_monthly_dividends_series called with an interval on an existing
\* holding has fetched the table it answers from, without the interval
C15_Witness ==
    /\ op = "get_monthly_dividends_series" /\ target = 1 /\ error = ""
    /\ period = MaxT /\ interval = "1d" /\ fetched = <<<<1, MaxT, NoInterval>>>>
    /\ Cardinality(Index(History(1, period))) >= 2

\* how many of the fetches in f are for holding i
RECURSIVE FetchCount(_, _)
FetchCount(f, i) ==
    IF f = <<>> THEN 0
    ELSE (IF Head(f)[1] = i THEN 1 ELSE 0) + FetchCount(Tail(f), i)

\* C16: a get_history_df call on a Portfolio issues exactly one fetch per
\* holding, in holdings order, all with the fetch parameters of the call; a
\* get_correlations call that runs to its end on n holdings issues exactly
\* two fetches per pair, of the pair's first holding and then of its second,
\* n * (n - 1) in all, so that every holding is fetched n - 1 times.  A
\* get_correlations call that an error ends has issued the fetches of the
\* pairs it reached.
C16_FetchesPerCall ==
    /\ (op = "get_history_df" /\ target = 0) =>
          /\ Len(fetched) = N
          /\ \A i \in 1..N : fetched[i] = <<i, period, interval>>
    /\ op = "get_correlations" =>
          /\ Len(fetched) = 2 * Len(aligned)
          /\ \A k \in 1..Len(aligned) :
                /\ fetched[2 * k - 1] = <<aligned[k].pair[1], period, interval>>
                /\ fetched[2 * k] = <<aligned[k].pair[2], period, interval>>
                /\ 1 <= aligned[k].pair[1] /\ aligned[k].pair[1] < aligned[k].pair[2]
                /\ aligned[k].pair[2] <= N
                /\ \A j \in 1..(k - 1) : aligned[j].pair # aligned[k].pair
          /\ error = "" =>
                /\ Len(fetched) = N * (N - 1)
                /\ \A i \in 1..N : FetchCount(fetched, i) = N - 1

\* get_correlations has run to its end on three holdings
C16_Witness ==
    /\ op = "get_correlations" /\ N = 3 /\ error = "" /\ period = MaxT
    /\ fetched = <<<<1, MaxT, NoInterval>>, <<2, MaxT, NoInterval>>,
                   <<1, MaxT, NoInterval>>, <<3, MaxT, NoInterval>>,
                   <<2, MaxT, NoInterval>>, <<3, MaxT, NoInterval>>>>

\* C17 (as claimed): a holding's get_close_series fails with
\* DataRetrievalError when the fetch returned a table with zero rows, and
\* never returns an empty close series.
C17_EmptyFetchIsAnError ==
    (op = "get_close_series" /\ target = 1) =>
        /\ Index(History(1, period)) = {} => error = "DataRetrievalError"
        /\ error = "" => DOMAIN result # {}

\* C18 (as claimed): a holding's get_normalized_close_series fails with
\* DivisionError when the first value of the fetched close series is 0, and
\* never returns a series with the infinite or null values of a division by
\* that 0.
C18_ZeroBaselineIsAnError ==
    (/\ op = "get_normalized_close_series" /\ target = 1
     /\ DOMAIN CloseOf(1, period) # {}
     /\ CloseOf(1, period)[Min(DOMAIN CloseOf(1, period))] = Zero) =>
        /\ error = "DivisionError"
        /\ result = <<>>

\* C19: get_history_df of a Portfolio with a single holding returns the
\* table fetched for that holding: the same timestamps, the same columns,
\* every cell as fetched.
C19_SingleHoldingUnscaled ==
    (op = "get_history_df" /\ target = 0 /\ N = 1) =>
        /\ error = ""
        /\ Index(result) = Index(History(1, period))
        /\ \A t \in Index(result) :
              /\ DOMAIN result[t] = Columns
              /\ \A c \in Columns : result[t][c] = History(1, period)[t][c]

\* the only holding has an invested value other than 1 and a table with a
\* null close
C19_Witness ==
    /\ op = "get_history_df" /\ target = 0 /\ N = 1 /\ stocks = <<2>>
    /\ error = "" /\ period = MaxT
    /\ Cardinality(Index(result)) >= 2
    /\ \E t \in Index(result) : IsNaN(result[t]["Close"])
    /\ \E t \in Index(result) : result[t]["Close"] = ClosePrice(1, t)

OneDarkCodes == {OneDarkColors[n] : n \in DOMAIN OneDarkColors}

\* the colors a plot call drew with are all One Dark codes
DrewInOneDark == \A k \in DOMAIN result.colors : result.colors[k] \in OneDarkCodes

\* C21: a plot call made through OneDarkPlotDecorator leaves the decorated
\* plotter's color table holding the One Dark codes, whether the call
\* returns or raises, and draws under the theme's rc settings; the table
\* stays so afterwards (only a new plotter has the plotter's own codes), so
\* a later call on the plotter itself draws with One Dark codes, under the
\* rc settings that were in force before the decorated call, which are
\* restored when it ends.
C21_DecoratorOverwritesColors ==
    /\ [](via = "decorator" =>
            /\ colors = OneDarkColors
            /\ error = "" =>
                  /\ DrewInOneDark
                  /\ \A k \in DOMAIN OneDarkTheme : result.rc[k] = OneDarkTheme[k])
    /\ [](rcParams = rcdefaults)
    /\ []((via = "plotter" /\ op \in PlotNames /\ error = "") =>
            /\ result.rc = rcdefaults
            /\ colors = OneDarkColors =>
                  /\ DrewInOneDark
                  /\ op = "lineplot" => result.colors \in {<<"#98C379">>, <<"#E06C75">>}
                  /\ op = "dividends" => result.colors = <<"#98C379", "#98C379">>
                  /\ op = "multi_lineplot" => result.colors = <<"#E06C75", "#98C379">>)
    /\ [][(colors = OneDarkColors /\ op' # "MatplotHistoryPlotter") =>
              colors' = OneDarkColors]_vars

\* after a decorated call, a line plot made on the plotter itself is drawn
\* in One Dark green under matplotlib's own rc settings
C21_Witness ==
    /\ via = "plotter" /\ op = "lineplot" /\ error = ""
    /\ colors = OneDarkColors
    /\ result.colors = <<"#98C379">>
    /\ result.rc = rcdefaults

\* C22 (as claimed): Portfolio defines every operation StockInterface
\* declares abstract and every holding exposes `value`, so Portfolio(stocks)
\* on a non-empty list of holdings with positive values returns without
\* raising.
C22_ConstructionSucceeds ==
    (op = "__init__" /\ target = 0 /\ N >= 1 /\ \A i \in 1..N : stocks[i] > 0) =>
        /\ error = ""
        /\ pc = "ok"
====
